---- MODULE Spec2Model ----
(***************************************************************************)
(* Harmony Search (HarmonySearch.py).                                      *)
(*                                                                         *)
(* The model follows one HarmonySearch object from its construction        *)
(* through one call of a public method: find_harmony(), improvise(hm) or   *)
(* change_hm(old_hm, new_hm).  numpy arrays are objects on a heap, so that *)
(* a copy and an alias are different things; the variables hm and new_hm   *)
(* hold references.  Reals are sampled on an integer grid: values of the   *)
(* search space are integers, rates and uniform trials are counted in      *)
(* quarters.                                                               *)
(***************************************************************************)
EXTENDS Integers, Sequences, FiniteSets

\* ------------------------------------------------------------- bounds
\* hms * d <= MaxCells : size of a harmony memory
MaxCells == 3
\* max_iter <= MaxIter
MaxIter == 2

\* --------------------------------------------------- program constants
\* defaults of __init__
rand_min == 0
rand_max == 1

VARIABLES
    f,            \* self.f        : the objective (one of Objectives)
    d,            \* self.d
    hms,          \* self.hms
    hmcr,         \* self.hmcr     (in quarters)
    par,          \* self.par      (in quarters)
    bw,           \* self.bw
    max_iter,     \* self.max_iter
    heap,         \* address -> array contents (<<>> : no array there)
    hm,           \* find_harmony's hm / improvise's hm / change_hm's old_hm
    new_hm,       \* find_harmony's new_hm / improvise's new_hm / change_hm's new_hm
    results,      \* find_harmony's results
    old_results,  \* change_hm's old_results, as of its return
    new_results,  \* change_hm's new_results, as of its return
    pc,           \* the statement to execute next
    caller,       \* which public method the client called
    iter,         \* number of completed passes of find_harmony's loop
    row,          \* improvise's loop variable (1-based)
    rnd,          \* the two values line 113 drew, until line 114 has run
    calls,        \* the methods invoked so far, in order
    ret           \* the value returned to the client

vars == <<f, d, hms, hmcr, par, bw, max_iter, heap, hm, new_hm, results,
          old_results, new_results, pc, caller, iter, row, rnd, calls, ret>>

params == <<f, d, hms, hmcr, par, bw, max_iter>>

\* ------------------------------------------------------------ sampling
Objectives == {"sphere", "neg_sum", "const"}
\* hmcr = par = 1/2: both outcomes of a trial u > rate occur.  A rate of 0 or 1
\* leaves one of the two outcomes, so its runs are among the runs of rate 1/2.
Rates == {2}
\* np.random.rand(): a value below 1/2 and a value above it
U == {1, 3}
\* the bandwidths sampled
BwVals == {1}
\* np.random.uniform(rand_min, rand_max, ...)
RandVals == rand_min..rand_max
\* np.random.uniform(-bw, bw, 1): the two ends and the middle
Shift(b) == {0 - b, 0, b}
Shapes == {s \in (1..MaxCells) \X (1..MaxCells) : s[1] * s[2] <= MaxCells}

NONE == 0
HM_ADDR == 1
NEW_ADDR == 2
Addr == {HM_ADDR, NEW_ADDR}

\* ------------------------------------------------------------- helpers
RECURSIVE Sum(_)
Sum(x) == IF x = <<>> THEN 0 ELSE Head(x) + Sum(Tail(x))

RECURSIVE SumSq(_)
SumSq(x) == IF x = <<>> THEN 0 ELSE Head(x) * Head(x) + SumSq(Tail(x))

\* self.f(x): a deterministic function of the harmony alone
F(x) ==
    CASE f = "sphere" -> SumSq(x)
      [] f = "neg_sum" -> 0 - Sum(x)
      [] f = "const" -> 0

\* np.apply_along_axis(self.f, 1, hm)
eval(m) == [i \in 1..Len(m) |-> F(m[i])]

\* np.argmax / np.argmin: the first index of the extreme value
argmax(r) ==
    CHOOSE i \in 1..Len(r) :
        /\ \A j \in 1..Len(r) : r[j] <= r[i]
        /\ \A j \in 1..(i - 1) : r[j] < r[i]

argmin(r) ==
    CHOOSE i \in 1..Len(r) :
        /\ \A j \in 1..Len(r) : r[j] >= r[i]
        /\ \A j \in 1..(i - 1) : r[j] > r[i]

\* np.random.uniform(rand_min, rand_max, (hms, d)): every array it can return
\* faulty variant: the two axes of the shape exchanged
generate_hm_swapped == [1..d -> [1..hms -> RandVals]]
generate_hm == [1..hms -> [1..d -> RandVals]]

\* deepcopy(hm): a new array with the same contents
\* faulty variant: no copy, the same array under a second name
deepcopy_alias(h, src) == [heap |-> h, ref |-> src]
deepcopy(h, src) == [heap |-> [h EXCEPT ![NEW_ADDR] = h[src]], ref |-> NEW_ADDR]

\* x[cond] = v with a scalar boolean cond: all of x when cond holds, nothing otherwise
\* faulty variant: one coordinate alone is overwritten
consider_first(x, u, v) == IF u > hmcr /\ Len(x) > 0 THEN [x EXCEPT ![1] = v] ELSE x
consider(x, u, v) == IF u > hmcr THEN [k \in 1..Len(x) |-> v] ELSE x

\* x[cond] += delta with a scalar boolean cond
adjust(x, u, delta) == IF u > par THEN [k \in 1..Len(x) |-> x[k] + delta] ELSE x

\* lines 134-143; the heap after the call (the call returns old)
\* faulty variant: the test of line 140 left out
change_hm_always(h, old, new) ==
    [h EXCEPT ![old][argmax(eval(h[old]))] = h[new][argmin(eval(h[new]))]]
\* faulty variant: <= for the < of line 140
change_hm_tie(h, old, new) ==
    LET o == eval(h[old])
        n == eval(h[new])
    IN  IF n[argmin(n)] <= o[argmax(o)]
        THEN [h EXCEPT ![old][argmax(o)] = h[new][argmin(n)]]
        ELSE h
\* faulty variant: new_best_i for the target index of line 141
change_hm_wrong_slot(h, old, new) ==
    LET o == eval(h[old])
        n == eval(h[new])
    IN  IF n[argmin(n)] < o[argmax(o)]
        THEN [h EXCEPT ![old][argmin(n)] = h[new][argmin(n)]]
        ELSE h
\* faulty variant: argmin for the argmax of line 137
change_hm_best(h, old, new) ==
    LET o == eval(h[old])
        n == eval(h[new])
    IN  IF n[argmin(n)] < o[argmax(o)]
        THEN [h EXCEPT ![old][argmin(o)] = h[new][argmin(n)]]
        ELSE h
\* faulty variant: the candidate appended, not stored in a slot
change_hm_append(h, old, new) ==
    LET o == eval(h[old])
        n == eval(h[new])
    IN  IF n[argmin(n)] < o[argmax(o)]
        THEN [h EXCEPT ![old] = Append(@, h[new][argmin(n)])]
        ELSE h
\* lines 134-143 as written
change_hm(h, old, new) ==
    LET old_res == eval(h[old])
        new_res == eval(h[new])
        old_worst_i == argmax(old_res)
        new_best_i == argmin(new_res)
    IN  IF new_res[new_best_i] < old_res[old_worst_i]
        THEN [h EXCEPT ![old][old_worst_i] = h[new][new_best_i]]
        ELSE h

\* where a method's return leads
AfterImprovise == IF caller = "find_harmony" THEN "change" ELSE "done"
AfterChange == IF caller = "find_harmony" THEN "eval" ELSE "done"

\* for _ in range(self.max_iter)
\* faulty variant: the loop gives up once all fitness values agree
LoopContinues_early ==
    iter < max_iter /\ \E i \in 1..Len(results) : results[i] # results[1]
LoopContinues == iter < max_iter

\* ---------------------------------------------------------------- Init
Init ==
    /\ f \in Objectives
    /\ \E s \in Shapes : hms = s[1] /\ d = s[2]
    /\ hmcr \in Rates
    /\ par \in Rates
    /\ bw \in BwVals
    /\ max_iter \in 0..MaxIter
    /\ heap = [a \in Addr |-> <<>>]
    /\ hm = NONE
    /\ new_hm = NONE
    /\ results = <<>>
    /\ old_results = <<>>
    /\ new_results = <<>>
    /\ pc = "idle"
    /\ caller = "none"
    /\ iter = 0
    /\ row = 0
    /\ rnd = <<>>
    /\ calls = <<>>
    /\ ret = <<>>

\* ------------------------------------------------------------- actions
\* find_harmony(), lines 167-168
CallFindHarmony ==
    /\ pc = "idle"
    /\ \E m \in generate_hm :
        /\ heap' = [heap EXCEPT ![HM_ADDR] = m]
        /\ results' = eval(m)
    /\ hm' = HM_ADDR
    /\ caller' = "find_harmony"
    /\ calls' = <<"generate_hm", "eval">>
    /\ pc' = "loop"
    /\ UNCHANGED <<params, new_hm, old_results, new_results, iter, row, rnd, ret>>

\* a client calls improvise(hm) on a memory of its own
CallImprovise ==
    /\ pc = "idle"
    /\ \E m \in generate_hm : heap' = [heap EXCEPT ![HM_ADDR] = m]
    /\ hm' = HM_ADDR
    /\ caller' = "improvise"
    /\ pc' = "improvise"
    /\ UNCHANGED <<params, new_hm, results, old_results, new_results, iter, row,
                   rnd, calls, ret>>

\* a client calls change_hm(old_hm, new_hm) on two memories of its own
CallChangeHm ==
    /\ pc = "idle"
    /\ \E o \in generate_hm, n \in generate_hm :
        heap' = [heap EXCEPT ![HM_ADDR] = o, ![NEW_ADDR] = n]
    /\ hm' = HM_ADDR
    /\ new_hm' = NEW_ADDR
    /\ caller' = "change_hm"
    /\ pc' = "change"
    /\ UNCHANGED <<params, results, old_results, new_results, iter, row, rnd,
                   calls, ret>>

\* line 170
Loop ==
    /\ pc = "loop"
    /\ pc' = IF LoopContinues THEN "improvise" ELSE "return"
    /\ UNCHANGED <<params, heap, hm, new_hm, results, old_results, new_results,
                   caller, iter, row, rnd, calls, ret>>

\* line 171 (the call) and line 110
Improvise ==
    /\ pc = "improvise"
    /\ LET c == deepcopy(heap, hm)
       IN  /\ heap' = c.heap
           /\ new_hm' = c.ref
    /\ row' = 1
    /\ calls' = Append(calls, "improvise")
    /\ pc' = IF 1 <= Len(heap[hm]) THEN "consider" ELSE AfterImprovise
    /\ UNCHANGED <<params, hm, results, old_results, new_results, caller, iter,
                   rnd, ret>>

\* line 113
Consider ==
    /\ pc = "consider"
    /\ \E u \in U, v \in RandVals :
        /\ heap' = [heap EXCEPT ![new_hm][row] = consider(@, u, v)]
        /\ rnd' = <<u, v>>
    /\ pc' = "adjust"
    /\ UNCHANGED <<params, hm, new_hm, results, old_results, new_results, caller,
                   iter, row, calls, ret>>

\* line 114, and line 112's step to the next row or line 116's return
Adjust ==
    /\ pc = "adjust"
    /\ \E u \in U, delta \in Shift(bw) :
        heap' = [heap EXCEPT ![new_hm][row] = adjust(@, u, delta)]
    /\ rnd' = <<>>
    /\ row' = row + 1
    /\ pc' = IF row + 1 <= Len(heap[hm]) THEN "consider" ELSE AfterImprovise
    /\ UNCHANGED <<params, hm, new_hm, results, old_results, new_results, caller,
                   iter, calls, ret>>

\* line 172 (the call and the assignment) and lines 134-143
ChangeHm ==
    /\ pc = "change"
    /\ old_results' = eval(heap[hm])
    /\ new_results' = eval(heap[new_hm])
    /\ heap' = change_hm(heap, hm, new_hm)
    /\ hm' = hm
    /\ calls' = Append(calls, "change_hm")
    /\ pc' = AfterChange
    /\ UNCHANGED <<params, new_hm, results, caller, iter, row, rnd, ret>>

\* line 173
\* faulty variant: results kept from the pass before
Eval_stale ==
    /\ pc = "eval"
    /\ results' = results
    /\ old_results' = <<>>
    /\ new_results' = <<>>
    /\ iter' = iter + 1
    /\ calls' = Append(calls, "eval")
    /\ pc' = "loop"
    /\ UNCHANGED <<params, heap, hm, new_hm, caller, row, rnd, ret>>
\* line 173 as written
Eval ==
    /\ pc = "eval"
    /\ results' = eval(heap[hm])
    /\ old_results' = <<>>
    /\ new_results' = <<>>
    /\ iter' = iter + 1
    /\ calls' = Append(calls, "eval")
    /\ pc' = "loop"
    /\ UNCHANGED <<params, heap, hm, new_hm, caller, row, rnd, ret>>

\* lines 175-176
Return ==
    /\ pc = "return"
    /\ ret' = heap[hm][argmin(results)]
    /\ pc' = "done"
    /\ UNCHANGED <<params, heap, hm, new_hm, results, old_results, new_results,
                   caller, iter, row, rnd, calls>>

Next ==
    \/ CallFindHarmony
    \/ CallImprovise
    \/ CallChangeHm
    \/ Loop
    \/ Improvise
    \/ Consider
    \/ Adjust
    \/ ChangeHm
    \/ Eval
    \/ Return

Spec == Init /\ [][Next]_vars

\* the interpreter runs a started call to its end
FairSpec == Spec /\ WF_vars(Next)

\* ============================================================== claims
MaxFit(m) == eval(m)[argmax(eval(m))]
MinFit(m) == eval(m)[argmin(eval(m))]
HasShape(m) == Len(m) = hms /\ \A i \in 1..Len(m) : Len(m[i]) = d
InImprovise == pc \in {"improvise", "consider", "adjust"}
\* change_hm has just returned, having rewritten a slot
Replaced ==
    /\ old_results # <<>>
    /\ new_results[argmin(new_results)] < old_results[argmax(old_results)]
\* the calls find_harmony makes when it runs n passes of its loop
RECURSIVE Passes(_)
Passes(n) ==
    IF n = 0 THEN <<"generate_hm", "eval">>
    ELSE Passes(n - 1) \o <<"improvise", "change_hm", "eval">>

\* C1: no step of the program raises the maximum fitness of the memory: not
\* change_hm on any pair of memories, nor any step of find_harmony's passes.
C1_MaxFitnessNeverIncreases ==
    [][hm # NONE => MaxFit(heap'[hm']) <= MaxFit(heap[hm])]_vars

\* find_harmony's second pass has replaced the worst harmony and lowered the maximum
C1_Witness ==
    /\ caller = "find_harmony"
    /\ pc = "eval"
    /\ iter = 1
    /\ Replaced
    /\ MaxFit(heap[hm]) < old_results[argmax(old_results)]

\* C2: when every harmony of new_hm has a fitness at least the worst fitness of
\* old_hm (a tie included), change_hm leaves old_hm as it was at every index.
C2_NoOpOnNonImprovement ==
    [][(/\ pc = "change"
        /\ \A i \in 1..Len(heap[new_hm]) : F(heap[new_hm][i]) >= MaxFit(heap[hm]))
       => heap'[hm'] = heap[hm]]_vars

\* change_hm has returned on a tie between two different harmonies
C2_Witness ==
    /\ old_results # <<>>
    /\ pc \in {"eval", "done"}
    /\ new_results[argmin(new_results)] = old_results[argmax(old_results)]
    /\ heap[new_hm][argmin(new_results)] # heap[hm][argmax(old_results)]

\* C3: when the best fitness of new_hm is below the worst fitness of old_hm, the
\* result differs from old_hm in the slot of the prior worst alone, which holds
\* the best candidate; new_hm is not modified.
C3_ImprovementApplied ==
    [][(pc = "change" /\ MinFit(heap[new_hm]) < MaxFit(heap[hm]))
       => LET w == argmax(eval(heap[hm]))
              b == argmin(eval(heap[new_hm]))
          IN  /\ heap'[hm'][w] = heap[new_hm][b]
              /\ heap'[hm'][w] # heap[hm][w]
              /\ \A i \in 1..Len(heap[hm]) : i # w => heap'[hm'][i] = heap[hm][i]
              /\ Len(heap'[hm']) = Len(heap[hm])
              /\ heap'[new_hm'] = heap[new_hm]]_vars

\* change_hm has moved the best candidate into another index, that of the worst
C3_Witness ==
    /\ Replaced
    /\ pc \in {"eval", "done"}
    /\ argmax(old_results) # argmin(new_results)
    /\ heap[hm][argmax(old_results)] = heap[new_hm][argmin(new_results)]

\* C4: find_harmony selects with the fitness vector of the final memory, and
\* returns a member of that memory of minimum fitness.
C4_ReturnsBestOfFinalMemory ==
    /\ (caller = "find_harmony" /\ pc \in {"return", "done"})
        => results = eval(heap[hm])
    /\ (caller = "find_harmony" /\ pc = "done")
        => /\ \E i \in 1..Len(heap[hm]) : ret = heap[hm][i]
           /\ F(ret) = MinFit(heap[hm])

\* find_harmony has returned a harmony better than any that generate_hm can make
C4_Witness ==
    /\ caller = "find_harmony"
    /\ pc = "done"
    /\ f = "neg_sum"
    /\ hms >= 2
    /\ F(ret) < 0 - d * rand_max

\* C5: a call of find_harmony ends, never makes more than max_iter passes, and
\* at its end has made exactly max_iter passes of improvise, change_hm, eval,
\* in that order.
C5_ExactlyMaxIterPasses ==
    /\ [](caller = "find_harmony"
            => /\ iter <= max_iter
               /\ pc = "done" => iter = max_iter /\ calls = Passes(max_iter))
    /\ (caller = "find_harmony") ~> (pc = "done")

\* find_harmony has run all its passes on a flat objective
C5_Witness ==
    /\ caller = "find_harmony"
    /\ pc = "done"
    /\ f = "const"
    /\ iter = MaxIter
    /\ Len(calls) = 2 + 3 * MaxIter

\* C6: in find_harmony the memory, and the improvised one, hold hms harmonies
\* of d components each.
C6_ShapeKept ==
    caller = "find_harmony"
        => /\ HasShape(heap[hm])
           /\ new_hm # NONE => HasShape(heap[new_hm])

\* a harmony of the memory has been replaced in each of two passes
C6_Witness ==
    /\ caller = "find_harmony"
    /\ pc = "eval"
    /\ iter = 1
    /\ Replaced
    /\ results # eval(heap[hm])
    /\ HasShape(heap[hm])

\* C7: no step of improvise changes its input; it returns another array of the
\* same shape; a change_hm on the input leaves the improvised memory as it is.
C7_ImproviseCopies ==
    [][/\ InImprovise
          => /\ hm' = hm
             /\ heap'[hm] = heap[hm]
             /\ new_hm' # hm
             /\ Len(heap'[new_hm']) = Len(heap[hm])
             /\ \A i \in 1..Len(heap[hm]) :
                    Len(heap'[new_hm'][i]) = Len(heap[hm][i])
       /\ pc = "change" => heap'[new_hm] = heap[new_hm]]_vars

\* improvise has returned a memory that differs from its input in every harmony
C7_Witness ==
    /\ caller = "improvise"
    /\ pc = "done"
    /\ hms >= 2
    /\ \A i \in 1..hms : heap[new_hm][i] # heap[hm][i]

\* C9, as claimed: after line 113 with u > hmcr, one coordinate of the harmony
\* holds the fresh draw and the others are those of the input memory.
C9_OneCoordinateReplaced ==
    (pc = "adjust" /\ rnd[1] > hmcr)
        => \E j \in 1..d :
            /\ heap[new_hm][row][j] = rnd[2]
            /\ \A k \in (1..d) \ {j} : heap[new_hm][row][k] = heap[hm][row][k]

\* C9, amended: after line 113 with u > hmcr every coordinate of the harmony
\* holds the one fresh draw; with u <= hmcr the harmony is that of the input.
C9_WholeHarmonyReplaced ==
    pc = "adjust"
        => heap[new_hm][row] =
            IF rnd[1] > hmcr THEN [k \in 1..d |-> rnd[2]] ELSE heap[hm][row]

\* line 113 has overwritten two or more coordinates, none of which held the draw
C9_Witness ==
    /\ pc = "adjust"
    /\ rnd[1] > hmcr
    /\ d >= 2
    /\ \A k \in 1..d : heap[hm][row][k] # rnd[2]
    /\ \A k \in 1..d : heap[new_hm][row][k] = rnd[2]

\* C10: no step raises the minimum fitness of the memory, and the harmony
\* find_harmony returns is no worse than the best of the memory.
C10_MinFitnessNeverIncreases ==
    [][/\ hm # NONE => MinFit(heap'[hm']) <= MinFit(heap[hm])
       /\ pc = "return" => F(ret') <= MinFit(heap[hm])]_vars

\* with a memory of one harmony, find_harmony has returned a harmony better
\* than any that generate_hm can make
C10_Witness ==
    /\ caller = "find_harmony"
    /\ pc = "done"
    /\ hms = 1
    /\ f = "neg_sum"
    /\ F(ret) < 0 - d * rand_max

====
